---- MODULE Spec2Model ----
(***************************************************************************)
(* Model of tablestogo.go: the command line tool that reads the tables of  *)
(* a database schema and writes one Go struct file per table.              *)
(*                                                                         *)
(* Text is modelled as a sequence of tokens.  Identifiers that the program *)
(* transforms (table, column and package names, prefix, suffix) are spelt  *)
(* character by character, one token per character; string literals of     *)
(* the source are kept as one or a few tokens.  Concatenation is \o.       *)
(***************************************************************************)
EXTENDS Integers, Sequences, FiniteSets, TLC

\* Largest number of base tables the schema of a run holds.
MaxTables == 2

----------------------------------------------------------------------------
(* package strings                                                         *)

LowerChars ==
    <<"a","b","c","d","e","f","g","h","i","j","k","l","m",
      "n","o","p","q","r","s","t","u","v","w","x","y","z">>

UpperChars ==
    <<"A","B","C","D","E","F","G","H","I","J","K","L","M",
      "N","O","P","Q","R","S","T","U","V","W","X","Y","Z">>

Digits ==
    {"0","1","2","3","4","5","6","7","8","9"}

Range(s) ==
    {s[k] : k \in DOMAIN s}

Letters ==
    Range(LowerChars) \cup Range(UpperChars)

IndexIn(c, s) ==
    CHOOSE k \in DOMAIN s : s[k] = c

ToUpperChar(c) ==
    IF c \in Range(LowerChars) THEN UpperChars[IndexIn(c, LowerChars)] ELSE c

ToLowerChar(c) ==
    IF c \in Range(UpperChars) THEN LowerChars[IndexIn(c, UpperChars)] ELSE c

\* strings.ToLower
ToLower(s) ==
    IF s = <<>> THEN <<>> ELSE [k \in 1..Len(s) |-> ToLowerChar(s[k])]

\* strings.isSeparator: ASCII letters, digits and underscore are word
\* characters, every other ASCII character separates words.
isSeparator(c) ==
    c \notin (Letters \cup Digits \cup {"_"})

\* strings.Title: the first letter of every word is mapped to upper case;
\* the character before the first one counts as a separator.
Title(s) ==
    IF s = <<>> THEN <<>>
    ELSE [k \in 1..Len(s) |->
            IF (IF k = 1 THEN TRUE ELSE isSeparator(s[k-1]))
            THEN ToUpperChar(s[k]) ELSE s[k]]

\* strings.Contains
Contains(s, substr) ==
    \E k \in 0..(Len(s) - Len(substr)) : SubSeq(s, k+1, k+Len(substr)) = substr

\* strings.Split with a one-token separator
RECURSIVE Split(_, _)
Split(s, sep) ==
    IF \A k \in DOMAIN s : s[k] # sep THEN <<s>>
    ELSE LET first == CHOOSE k \in DOMAIN s :
                          s[k] = sep /\ \A j \in 1..(k-1) : s[j] # sep
         IN  <<SubSeq(s, 1, first-1)>> \o Split(SubSeq(s, first+1, Len(s)), sep)

RECURSIVE Concat(_)
Concat(parts) ==
    IF parts = <<>> THEN <<>> ELSE Head(parts) \o Concat(Tail(parts))

----------------------------------------------------------------------------
(* Identifier Formatter                                                    *)

camelCaseString(s) ==
    LET splitted == Split(s, "_")
    IN  IF Len(splitted) = 1 THEN Title(s)
        ELSE Concat([k \in 1..Len(splitted) |-> Title(ToLower(splitted[k]))])

stringInSlice(needle, haystack) ==
    \E k \in DOMAIN haystack : haystack[k] = needle

supportedDbTypes ==
    <<"pg", "mysql">>

supportedOutputFormats ==
    <<"c", "o">>

dbDefaultPorts ==
    [t \in {"pg", "mysql"} |-> IF t = "pg" THEN "5432" ELSE "3306"]

----------------------------------------------------------------------------
(* Type Mapper                                                             *)

mapDbColumnTypeToGoType_defaultString(dbDataType, isNullable) ==
    CASE dbDataType \in {"integer", "bigint", "bigserial", "smallint",
                         "smallserial", "serial", "int", "tinyint", "mediumint"} ->
            [goType |-> IF isNullable = "YES" THEN "sql.NullInt64" ELSE "int",
             isTime |-> FALSE]
      [] dbDataType \in {"double precision", "numeric", "decimal", "real",
                         "float", "double"} ->
            [goType |-> IF isNullable = "YES" THEN "sql.NullFloat64" ELSE "float64",
             isTime |-> FALSE]
      [] dbDataType \in {"character varying", "character", "text",
                         "char", "varchar", "binary", "varbinary", "blob"} ->
            [goType |-> IF isNullable = "YES" THEN "sql.NullString" ELSE "string",
             isTime |-> FALSE]
      [] dbDataType \in {"time", "timestamp", "time with time zone",
                         "timestamp with time zone", "time without time zone",
                         "timestamp without time zone", "date", "datetime", "year"} ->
            [goType |-> IF isNullable = "YES" THEN "pq.NullTime" ELSE "time.Time",
             isTime |-> TRUE]
      [] dbDataType = "boolean" ->
            [goType |-> IF isNullable = "YES" THEN "sql.NullBool" ELSE "bool",
             isTime |-> FALSE]
      [] OTHER ->
            [goType |-> IF isNullable = "YES" THEN "sql.NullString" ELSE "string",
             isTime |-> FALSE]

mapDbColumnTypeToGoType(dbDataType, isNullable) ==
    CASE dbDataType \in {"integer", "bigint", "bigserial", "smallint",
                         "smallserial", "serial", "int", "tinyint", "mediumint"} ->
            [goType |-> IF isNullable = "YES" THEN "sql.NullInt64" ELSE "int",
             isTime |-> FALSE]
      [] dbDataType \in {"double precision", "numeric", "decimal", "real",
                         "float", "double"} ->
            [goType |-> IF isNullable = "YES" THEN "sql.NullFloat64" ELSE "float64",
             isTime |-> FALSE]
      [] dbDataType \in {"character varying", "character", "text",
                         "char", "varchar", "binary", "varbinary", "blob"} ->
            [goType |-> IF isNullable = "YES" THEN "sql.NullString" ELSE "string",
             isTime |-> FALSE]
      [] dbDataType \in {"time", "timestamp", "time with time zone",
                         "timestamp with time zone", "time without time zone",
                         "timestamp without time zone", "date", "datetime", "year"} ->
            [goType |-> IF isNullable = "YES" THEN "pq.NullTime" ELSE "time.Time",
             isTime |-> TRUE]
      [] dbDataType = "boolean" ->
            [goType |-> IF isNullable = "YES" THEN "sql.NullBool" ELSE "bool",
             isTime |-> FALSE]
      [] OTHER ->
            [goType |-> "sql.NullString", isTime |-> FALSE]

----------------------------------------------------------------------------
(* package path/filepath and the file system the tool is started in        *)

\* Working directory of the process.
Cwd ==
    <<"/", "home", "/", "work">>

\* Directories and regular files that exist when the tool starts.
ExistingDirs ==
    { <<"/">>, <<"/", "home">>, Cwd, Cwd \o <<"/", "output">>,
      <<"/", "tmp">> }

ExistingFiles ==
    { Cwd \o <<"/", "notes.txt">> }

RECURSIVE Resolve(_, _)
Resolve(elems, acc) ==
    IF elems = <<>> THEN acc
    ELSE IF Head(elems) = <<"..">>
         THEN Resolve(Tail(elems),
                      IF acc = <<>> THEN <<>> ELSE SubSeq(acc, 1, Len(acc) - 1))
         ELSE Resolve(Tail(elems), Append(acc, Head(elems)))

RECURSIVE JoinElems(_)
JoinElems(elems) ==
    IF elems = <<>> THEN <<>>
    ELSE IF Len(elems) = 1 THEN Head(elems)
         ELSE Head(elems) \o <<"/">> \o JoinElems(Tail(elems))

\* filepath.Clean of a rooted path: empty and "." elements are dropped,
\* ".." is resolved, and no trailing separator is left (the root excepted).
Clean(p) ==
    LET elems == SelectSeq(Split(p, "/"),
                           LAMBDA e : e # <<>> /\ e # <<".">>)
    IN  <<"/">> \o JoinElems(Resolve(elems, <<>>))

\* filepath.Abs
Abs(p) ==
    IF p # <<>> /\ p[1] = "/" THEN Clean(p) ELSE Clean(Cwd \o <<"/">> \o p)

\* os.Stat, reduced to the three outcomes verifyOutputPath tells apart
\* (errors of Stat other than a missing path are left out).
Stat(p) ==
    IF p = <<>> THEN "notexist"
    ELSE IF Abs(p) \in ExistingDirs THEN "dir"
    ELSE IF Abs(p) \in ExistingFiles THEN "file"
    ELSE "notexist"

verifyOutputPath(path) ==
    IF Stat(path) = "notexist"
    THEN [err |-> "output file path does not exists!", outputFilePath |-> path]
    ELSE IF Stat(path) # "dir"
    THEN [err |-> "output file path is not a directory!", outputFilePath |-> path]
    ELSE [err |-> "nil", outputFilePath |-> Abs(path \o <<"/">>)]

----------------------------------------------------------------------------
(* Program state                                                           *)

VARIABLES
    help, dbType, port, outputFilePath, outputFormat, packageName,
    prefix, suffix,
    isMastermindStructable, isMastermindStructableOnly,
    isMastermindStructableRecorder,
    schemaTables,   \* the base tables of the schema, as the database holds them
    db,             \* the connection: "nil", "open" or "closed"
    deferred,       \* TRUE once main has registered the deferred db.Close()
    stmt,           \* GetColumnsOfTableStmt: "nil", "prepared" or "closed"
    tables,         \* run's local list of tables
    tableIdx,       \* position of run's loop in tables
    err,            \* the error value main or run holds, "nil" for none
    files,          \* the file system: path |-> content of the files created
    emitted,        \* history: one record per call of os.Create that succeeded
    selectFailed,   \* history: positions in tables whose column query failed
    pc

cmdArgs ==
    <<help, dbType, port, outputFilePath, outputFormat, packageName,
      prefix, suffix, isMastermindStructable, isMastermindStructableOnly,
      isMastermindStructableRecorder>>

vars ==
    <<help, dbType, port, outputFilePath, outputFormat, packageName,
      prefix, suffix, isMastermindStructable, isMastermindStructableOnly,
      isMastermindStructableRecorder, schemaTables, db, deferred, stmt,
      tables, tableIdx, err, files, emitted, selectFailed, pc>>

----------------------------------------------------------------------------
(* Struct Emitter: the text createStructOfTable assembles                  *)

\* The character U+0060, which opens and closes the raw string of a field tag.
Backquote ==
    "BACKQUOTE"

\* The marker tokens of an auto-increment primary key column, or nothing.
isPk_orInsteadOfAnd(column) ==
    IF Contains(column.ColumnDefault, <<"nextval">>)
       \/ (Contains(column.ColumnKey, <<"PRI">>)
           \/ Contains(column.Extra, <<"auto_increment">>))
    THEN <<",PRIMARY_KEY,SERIAL,AUTO_INCREMENT">> ELSE <<>>

isPk(column) ==
    IF Contains(column.ColumnDefault, <<"nextval">>)
       \/ (Contains(column.ColumnKey, <<"PRI">>)
           /\ Contains(column.Extra, <<"auto_increment">>))
    THEN <<",PRIMARY_KEY,SERIAL,AUTO_INCREMENT">> ELSE <<>>

mastermindStructableAnnotation(column) ==
    IF isMastermindStructable \/ isMastermindStructableOnly
    THEN <<" stbl:\"">> \o column.ColumnName \o isPk(column) \o <<"\"">>
    ELSE <<>>

colName(column) ==
    IF outputFormat = "c"
    THEN camelCaseString(Title(column.ColumnName))
    ELSE Title(column.ColumnName)

\* One iteration of the loop over table.Columns: the line written to colBuffer.
colLine(column) ==
    LET colType == mapDbColumnTypeToGoType(column.DataType, column.IsNullable).goType
    IN  IF isMastermindStructableOnly
        THEN <<"\t">> \o colName(column) \o <<" ", colType, " ", Backquote>>
             \o mastermindStructableAnnotation(column) \o <<Backquote, "\n">>
        ELSE <<"\t">> \o colName(column) \o <<" ", colType, " ", Backquote, "db:\"">>
             \o column.ColumnName \o <<"\"">>
             \o mastermindStructableAnnotation(column) \o <<Backquote, "\n">>

colLines(table) ==
    [k \in 1..Len(table.Columns) |-> colLine(table.Columns[k])]

withRecorder ==
    isMastermindStructableRecorder
    /\ (isMastermindStructable \/ isMastermindStructableOnly)

colBuffer(table) ==
    Concat(colLines(table))
    \o (IF withRecorder THEN <<"\t\n", "structable.Recorder", "\n">> ELSE <<>>)

isNullable(table) ==
    \E k \in 1..Len(table.Columns) : table.Columns[k].IsNullable = "YES"

timeIndicator(table) ==
    Cardinality({k \in 1..Len(table.Columns) :
        mapDbColumnTypeToGoType(table.Columns[k].DataType,
                                table.Columns[k].IsNullable).isTime})

tableName(table) ==
    IF outputFormat = "c"
    THEN camelCaseString(Title(prefix \o table.TableName \o suffix))
    ELSE Title(prefix \o table.TableName \o suffix)

fileName(table) ==
    tableName(table) \o <<".go">>

imports(table) ==
    IF isNullable(table) \/ timeIndicator(table) > 0
       \/ isMastermindStructable \/ isMastermindStructableOnly
    THEN <<"import (\n">>
         \o (IF isNullable(table) THEN <<"\t", "\"database/sql\"", "\n">> ELSE <<>>)
         \o (IF timeIndicator(table) > 0
             THEN IF isNullable(table)
                  THEN <<"\t\n", "\"github.com/lib/pq\"", "\n">>
                  ELSE <<"\t", "\"time\"", "\n">>
             ELSE <<>>)
         \o (IF withRecorder
             THEN <<"\t\n", "\"github.com/Masterminds/structable\"", "\n">>
             ELSE <<>>)
         \o <<")\n\n">>
    ELSE <<>>

\* The content of buffer when createStructOfTable hands it to format.Source.
buffer(table) ==
    <<"package ">> \o packageName \o <<"\n\n">>
    \o imports(table)
    \o <<"type ">> \o tableName(table) \o <<" struct {\n">>
    \o colBuffer(table)
    \o <<"}">>

----------------------------------------------------------------------------
(* package go/format                                                       *)

GoKeywords ==
    { <<"b","r","e","a","k">>, <<"c","a","s","e">>, <<"c","h","a","n">>,
      <<"c","o","n","s","t">>, <<"c","o","n","t","i","n","u","e">>,
      <<"d","e","f","a","u","l","t">>, <<"d","e","f","e","r">>,
      <<"e","l","s","e">>, <<"f","a","l","l","t","h","r","o","u","g","h">>,
      <<"f","o","r">>, <<"f","u","n","c">>, <<"g","o">>, <<"g","o","t","o">>,
      <<"i","f">>, <<"i","m","p","o","r","t">>,
      <<"i","n","t","e","r","f","a","c","e">>, <<"m","a","p">>,
      <<"p","a","c","k","a","g","e">>, <<"r","a","n","g","e">>,
      <<"r","e","t","u","r","n">>, <<"s","e","l","e","c","t">>,
      <<"s","t","r","u","c","t">>, <<"s","w","i","t","c","h">>,
      <<"t","y","p","e">>, <<"v","a","r">> }

IsIdentifier(s) ==
    /\ s # <<>>
    /\ s[1] \in Letters \cup {"_"}
    /\ \A k \in 1..Len(s) : s[k] \in Letters \cup Digits \cup {"_"}
    /\ s \notin GoKeywords

\* Position of the first token tok of text at or after position from
\* (Len(text) + 1 when there is none).
IndexFrom(text, tok, from) ==
    IF \E k \in from..Len(text) : text[k] = tok
    THEN CHOOSE k \in from..Len(text) :
             text[k] = tok /\ \A j \in from..(k-1) : text[j] # tok
    ELSE Len(text) + 1

Between(text, open, close) ==
    LET a == IndexFrom(text, open, 1)
    IN  SubSeq(text, a + 1, IndexFrom(text, close, a + 1) - 1)

\* parser.ParseFile on the text of one generated file: the package clause,
\* the name of the type and the name of every field must be identifiers.
ParsesAsGo(text) ==
    LET body == IndexFrom(text, " struct {\n", 1)
    IN  /\ IsIdentifier(Between(text, "package ", "\n\n"))
        /\ IsIdentifier(Between(text, "type ", " struct {\n"))
        /\ \A k \in (body + 1)..Len(text) :
              text[k] = "\t" =>
                 IsIdentifier(SubSeq(text, k + 1, IndexFrom(text, " ", k + 1) - 1))

\* The printer's canonical white space: a line holding only a tab becomes an
\* empty line, the following line is indented, and the file ends in a newline.
Gofmt(text) ==
    [k \in 1..Len(text) |-> IF text[k] = "\t\n" THEN "\n\t" ELSE text[k]]
    \o <<"\n">>

\* format.Source: the formatted text, or nil and an error when the text does
\* not parse.
formatSource(text) ==
    IF ParsesAsGo(text)
    THEN [src |-> Gofmt(text), err |-> "nil"]
    ELSE [src |-> <<>>, err |-> "syntax error"]

----------------------------------------------------------------------------
(* Inputs: command lines and schemas                                       *)

Column(pos, name, dataType, default, nullable, key, extra) ==
    [OrdinalPosition |-> pos, ColumnName |-> name, DataType |-> dataType,
     ColumnDefault |-> default, IsNullable |-> nullable,
     ColumnKey |-> key, Extra |-> extra]

Nextval ==
    <<"nextval", "('seq'::regclass)">>

\* Base tables a schema can hold, in ascending order of their names.
TablePool ==
    << [TableName |-> <<"o","r","d","e","r","_","i","t","e","m","s">>,
        Columns |-> << Column(1, <<"i","d">>, "integer", Nextval, "NO", <<>>, <<>>),
                       Column(2, <<"o","r","d","e","r","_","i","d">>, "integer",
                              <<>>, "NO", <<>>, <<>>),
                       Column(3, <<"n","o","t","e">>, "text", <<>>, "YES", <<>>, <<>>) >>],
       [TableName |-> <<"u","s","e","r","L","o","g">>,
        Columns |-> << Column(1, <<"c","r","e","a","t","e","d">>, "timestamp",
                              <<>>, "NO", <<>>, <<>>),
                       Column(2, <<"n","o","t","e">>, "text", <<>>, "YES", <<>>, <<>>) >>],
       [TableName |-> <<"u","s","e","r","_","l","o","g">>,
        Columns |-> << Column(1, <<"a","t">>, "datetime", <<>>, "YES", <<>>, <<>>) >>],
       [TableName |-> <<"u","s","e","r","s">>,
        Columns |-> << Column(1, <<"i","d">>, "int", <<>>, "NO",
                              <<"PRI">>, <<"auto_increment">>),
                       Column(2, <<"n","a","m","e">>, "varchar", <<>>, "NO",
                              <<"UNI">>, <<>>) >>],
       [TableName |-> <<"x","-","y">>,
        Columns |-> << Column(1, <<"f","l","a","g">>, "boolean", <<>>, "NO", <<>>, <<>>),
                       Column(2, <<"g","e","o">>, "point", <<>>, "NO", <<>>, <<>>) >>] >>

\* The schemas: at most MaxTables tables of the pool, in the order of the pool.
Schemas ==
    { SelectSeq(TablePool, LAMBDA t : \E k \in S : TablePool[k] = t) :
        S \in { T \in SUBSET (1..Len(TablePool)) : Cardinality(T) <= MaxTables } }

\* The SQL types of the five families of mapDbColumnTypeToGoType and some
\* type names outside them.
KnownDataTypes ==
    { "integer", "bigint", "bigserial", "smallint", "smallserial", "serial",
      "int", "tinyint", "mediumint",
      "double precision", "numeric", "decimal", "real", "float", "double",
      "character varying", "character", "text", "char", "varchar", "binary",
      "varbinary", "blob",
      "time", "timestamp", "time with time zone", "timestamp with time zone",
      "time without time zone", "timestamp without time zone", "date",
      "datetime", "year",
      "boolean" }

OtherDataTypes ==
    { "point", "uuid", "json", "INTEGER", "" }

DefaultOutputPath ==
    <<".", "/", "output">>

OutputPaths ==
    { DefaultOutputPath, <<"/", "tmp", "/">>, <<"/">>, <<"o","u","t">>,
      <<"notes.txt">> }

PackageDto ==
    <<"d","t","o">>

PackageNames ==
    { PackageDto, <<>>, <<"t","y","p","e">> }

Prefixes ==
    { <<>>, <<"t","_">> }

Suffixes ==
    { <<>>, <<"_","r","o","w">> }

----------------------------------------------------------------------------
(* Init: the state of the process when main starts, flags parsed           *)

InitProcess ==
    /\ db = "nil"
    /\ deferred = FALSE
    /\ stmt = "nil"
    /\ tables = <<>>
    /\ tableIdx = 1
    /\ err = "nil"
    /\ files = <<>>
    /\ emitted = <<>>
    /\ selectFailed = {}
    /\ pc = "prepareCmdArgs"

\* Runs that differ in the command line options main validates.
InitCmdArgs ==
    /\ help \in BOOLEAN
    /\ dbType \in {"pg", "mysql", "oracle"}
    /\ port \in {"", "5433"}
    /\ outputFilePath \in OutputPaths
    /\ outputFormat \in {"c", "o", "x"}
    /\ packageName \in PackageNames
    /\ prefix = <<>>
    /\ suffix = <<>>
    /\ isMastermindStructable = FALSE
    /\ isMastermindStructableOnly = FALSE
    /\ isMastermindStructableRecorder = FALSE
    /\ schemaTables = SubSeq(TablePool, 1, 1)

\* Runs that differ in the generation options and in the schema.
InitGenerate ==
    /\ help = FALSE
    /\ dbType \in {"pg", "mysql"}
    /\ port = ""
    /\ outputFilePath = DefaultOutputPath
    /\ outputFormat \in {"c", "o"}
    /\ packageName = PackageDto
    /\ prefix \in Prefixes
    /\ suffix \in Suffixes
    /\ isMastermindStructable \in BOOLEAN
    /\ isMastermindStructableOnly \in BOOLEAN
    /\ isMastermindStructableRecorder \in BOOLEAN
    /\ schemaTables \in Schemas

\* Runs over one table of one column, of every data type and nullability.
InitDataTypes ==
    /\ help = FALSE
    /\ dbType = "pg"
    /\ port = ""
    /\ outputFilePath = DefaultOutputPath
    /\ outputFormat = "c"
    /\ packageName = PackageDto
    /\ prefix = <<>>
    /\ suffix = <<>>
    /\ isMastermindStructable = FALSE
    /\ isMastermindStructableOnly = FALSE
    /\ isMastermindStructableRecorder = FALSE
    /\ \E dataType \in KnownDataTypes \cup OtherDataTypes, nullable \in {"YES", "NO"} :
          schemaTables = << [TableName |-> <<"t">>,
                             Columns |-> << Column(1, <<"c">>, dataType, <<>>,
                                                   nullable, <<>>, <<>>) >>] >>

\* Runs over one table of one column, of every kind of default, key and extra.
InitKeys ==
    /\ help = FALSE
    /\ dbType \in {"pg", "mysql"}
    /\ port = ""
    /\ outputFilePath = DefaultOutputPath
    /\ outputFormat \in {"c", "o"}
    /\ packageName = PackageDto
    /\ prefix = <<>>
    /\ suffix = <<>>
    /\ isMastermindStructable \in BOOLEAN
    /\ isMastermindStructableOnly \in BOOLEAN
    /\ isMastermindStructableRecorder \in BOOLEAN
    /\ \E default \in { <<>>, <<"0">>, Nextval },
          key \in { <<>>, <<"PRI">>, <<"UNI">> },
          extra \in { <<>>, <<"auto_increment">>, <<"on update CURRENT_TIMESTAMP">> } :
          schemaTables = << [TableName |-> <<"t">>,
                             Columns |-> << Column(1, <<"u","s","e","r","_","i","d">>,
                                                   "integer", default, "NO",
                                                   key, extra) >>] >>

Init ==
    /\ InitProcess
    /\ (InitCmdArgs \/ InitGenerate \/ InitDataTypes \/ InitKeys)

----------------------------------------------------------------------------
(* main                                                                    *)

\* main, up to the test of the help flag (the flags are parsed).
prepareCmdArgs ==
    /\ pc = "prepareCmdArgs"
    /\ pc' = IF help THEN "exit" ELSE "handleCmdArgs"
    /\ UNCHANGED <<cmdArgs, schemaTables, db, deferred, stmt, tables, tableIdx,
                   err, files, emitted, selectFailed>>

handleCmdArgsResult ==
    IF ~stringInSlice(dbType, supportedDbTypes)
    THEN [err |-> "type of database not supported!",
          outputFilePath |-> outputFilePath, port |-> port]
    ELSE IF ~stringInSlice(outputFormat, supportedOutputFormats)
    THEN [err |-> "output format not supported!",
          outputFilePath |-> outputFilePath, port |-> port]
    ELSE LET v == verifyOutputPath(outputFilePath)
         IN  IF v.err # "nil"
             THEN [err |-> v.err, outputFilePath |-> v.outputFilePath, port |-> port]
             ELSE [err |-> IF packageName = <<>>
                           THEN "name of package can not be empty!" ELSE "nil",
                   outputFilePath |-> v.outputFilePath,
                   port |-> IF port = "" THEN dbDefaultPorts[dbType] ELSE port]

handleCmdArgs ==
    /\ pc = "handleCmdArgs"
    /\ err' = handleCmdArgsResult.err
    /\ outputFilePath' = handleCmdArgsResult.outputFilePath
    /\ port' = handleCmdArgsResult.port
    /\ pc' = IF handleCmdArgsResult.err # "nil" THEN "exit" ELSE "connect"
    /\ UNCHANGED <<help, dbType, outputFormat, packageName, prefix, suffix,
                   isMastermindStructable, isMastermindStructableOnly,
                   isMastermindStructableRecorder, schemaTables, db, deferred,
                   stmt, tables, tableIdx, files, emitted, selectFailed>>

\* connect and, when it succeeds, the registration of the deferred db.Close().
\* sqlx.Connect returns no handle when it fails; db.Ping can fail afterwards.
connect ==
    /\ pc = "connect"
    /\ \E connected \in BOOLEAN, pinged \in BOOLEAN :
          IF ~connected
          THEN /\ db' = "nil"
               /\ err' = "Connection to Database failed!"
               /\ deferred' = FALSE
               /\ pc' = "exit"
          ELSE /\ db' = "open"
               /\ err' = IF pinged THEN "nil" ELSE "ping failed"
               /\ deferred' = pinged
               /\ pc' = IF pinged THEN "GetTables" ELSE "exit"
    /\ UNCHANGED <<cmdArgs, schemaTables, stmt, tables, tableIdx, files,
                   emitted, selectFailed>>

\* The end of main after run has returned: the deferred db.Close() runs.
mainReturn ==
    /\ pc = "return"
    /\ db' = IF deferred THEN "closed" ELSE db
    /\ pc' = "exit"
    /\ UNCHANGED <<cmdArgs, schemaTables, deferred, stmt, tables, tableIdx, err,
                   files, emitted, selectFailed>>

----------------------------------------------------------------------------
(* run and the Schema Reader                                               *)

GetTables ==
    /\ pc = "GetTables"
    /\ \E selected \in BOOLEAN :
          IF selected
          THEN /\ tables' = [k \in 1..Len(schemaTables) |->
                               [TableName |-> schemaTables[k].TableName,
                                Columns |-> <<>>]]
               /\ err' = "nil"
               /\ pc' = "PrepareGetColumnsOfTableStmt"
          ELSE /\ tables' = <<>>
               /\ err' = "GetTables failed"
               /\ pc' = "return"
    /\ UNCHANGED <<cmdArgs, schemaTables, db, deferred, stmt, tableIdx, files,
                   emitted, selectFailed>>

PrepareGetColumnsOfTableStmt ==
    /\ pc = "PrepareGetColumnsOfTableStmt"
    /\ \E prepared \in BOOLEAN :
          IF prepared
          THEN /\ stmt' = "prepared"
               /\ err' = "nil"
               /\ pc' = "loop"
          ELSE /\ stmt' = "nil"
               /\ err' = "Preparex failed"
               /\ pc' = "return"
    /\ UNCHANGED <<cmdArgs, schemaTables, db, deferred, tables, tableIdx, files,
                   emitted, selectFailed>>

\* The rows GetColumnsOfTableStmt selects for a table.  The statement of the
\* PostgreSQL reader selects neither column_key nor extra.
selectColumns(table) ==
    LET stored == CHOOSE t \in Range(schemaTables) : t.TableName = table.TableName
    IN  IF dbType = "mysql" THEN stored.Columns
        ELSE [k \in 1..Len(stored.Columns) |->
                [stored.Columns[k] EXCEPT !.ColumnKey = <<>>, !.Extra = <<>>]]

\* The error GetColumnsOfTable returns when Select returned selectErr: the
\* result of Select is dropped and the named result err is never assigned.
GetColumnsOfTableErr(selectErr) ==
    "nil"

\* One pass of the loop of run, first half: GetColumnsOfTable(table).
GetColumnsOfTable ==
    /\ pc = "loop"
    /\ tableIdx <= Len(tables)
    /\ \E selected \in BOOLEAN :
          LET selectErr == IF selected THEN "nil" ELSE "Select failed"
          IN  /\ tables' = IF selected
                           THEN [tables EXCEPT ![tableIdx].Columns =
                                                  selectColumns(tables[tableIdx])]
                           ELSE tables
              /\ selectFailed' = IF selected THEN selectFailed
                                 ELSE selectFailed \cup {tableIdx}
              /\ err' = GetColumnsOfTableErr(selectErr)
              /\ pc' = IF GetColumnsOfTableErr(selectErr) # "nil"
                       THEN "return" ELSE "createStructOfTable"
    /\ UNCHANGED <<cmdArgs, schemaTables, db, deferred, stmt, tableIdx, files,
                   emitted>>

\* One pass of the loop of run, second half: createStructOfTable(table).
createStructOfTable ==
    /\ pc = "createStructOfTable"
    /\ \E created \in BOOLEAN :
          LET table == tables[tableIdx]
              path == outputFilePath \o fileName(table)
              formatedFile == formatSource(buffer(table)).src
          IN  IF ~created
              THEN /\ err' = "os.Create failed"
                   /\ pc' = "return"
                   /\ UNCHANGED <<files, emitted, tableIdx>>
              ELSE /\ files' = [f \in DOMAIN files \cup {path} |->
                                   IF f = path THEN formatedFile ELSE files[f]]
                   /\ emitted' = Append(emitted,
                          [idx |-> tableIdx, table |-> table, path |-> path,
                           buffer |-> buffer(table), lines |-> colLines(table),
                           goTypes |-> [k \in 1..Len(table.Columns) |->
                                          mapDbColumnTypeToGoType(
                                              table.Columns[k].DataType,
                                              table.Columns[k].IsNullable)],
                           formatErr |-> formatSource(buffer(table)).err,
                           written |-> formatedFile])
                   /\ err' = "nil"
                   /\ tableIdx' = tableIdx + 1
                   /\ pc' = "loop"
    /\ UNCHANGED <<cmdArgs, schemaTables, db, deferred, stmt, tables, selectFailed>>

\* The loop of run is over: "done!".
runDone ==
    /\ pc = "loop"
    /\ tableIdx > Len(tables)
    /\ pc' = "return"
    /\ UNCHANGED <<cmdArgs, schemaTables, db, deferred, stmt, tables, tableIdx,
                   err, files, emitted, selectFailed>>

Next ==
    \/ prepareCmdArgs
    \/ handleCmdArgs
    \/ connect
    \/ GetTables
    \/ PrepareGetColumnsOfTableStmt
    \/ GetColumnsOfTable
    \/ createStructOfTable
    \/ runDone
    \/ mainReturn

Spec ==
    Init /\ [][Next]_vars

----------------------------------------------------------------------------
(* Properties                                                              *)

Emitted ==
    Range(emitted)

\* The import path a type of a field needs, "" for a type of the language.
ImportOf(goType) ==
    CASE goType \in {"sql.NullInt64", "sql.NullFloat64", "sql.NullString",
                     "sql.NullBool"} -> "\"database/sql\""
      [] goType = "time.Time" -> "\"time\""
      [] goType = "pq.NullTime" -> "\"github.com/lib/pq\""
      [] goType = "structable.Recorder" -> "\"github.com/Masterminds/structable\""
      [] OTHER -> ""

\* The tokens of a generated text before its type declaration, and from it on.
HeadOf(text) ==
    SubSeq(text, 1, IndexFrom(text, "type ", 1) - 1)

BodyOf(text) ==
    SubSeq(text, IndexFrom(text, "type ", 1), Len(text))

NoNullableColumn(table) ==
    \A k \in 1..Len(table.Columns) : table.Columns[k].IsNullable # "YES"

TemporalTypes ==
    { "time", "timestamp", "time with time zone", "timestamp with time zone",
      "time without time zone", "timestamp without time zone", "date",
      "datetime", "year" }

NoTemporalColumn(table) ==
    \A k \in 1..Len(table.Columns) : table.Columns[k].DataType \notin TemporalTypes

\* C1: every package qualifier the struct body of an emitted file refers to
\* (sql., time., pq., structable.) is imported by the import block of the
\* same file.
C1_QualifiersImported ==
    \A e \in Emitted :
        (e.idx \notin selectFailed /\ e.formatErr = "nil") =>
            \A tok \in Range(BodyOf(e.written)) :
                ImportOf(tok) # "" => ImportOf(tok) \in Range(HeadOf(e.written))

\* C2: when loading the columns of a table fails, no output file is created
\* for that table nor for any table after it, and run returns the error.
C2_LoadFailureAborts ==
    \A k \in selectFailed :
        /\ \A e \in Emitted : e.idx < k
        /\ pc \in {"return", "exit"} => err # "nil"

\* C3: when format.Source fails for a table, the file receives the
\* unformatted assembled text and is not empty, and the run goes on.
C3_UnformattedTextWritten ==
    \A e \in Emitted :
        (e.idx \notin selectFailed /\ e.formatErr # "nil") =>
            /\ e.written = e.buffer
            /\ e.written # <<>>

\* The path of the entry name of directory dir (the root ends in its separator).
InDirectory(dir, name) ==
    IF dir[Len(dir)] = "/" THEN dir \o name ELSE dir \o <<"/">> \o name

\* C4: the file of a table is created inside the verified output directory:
\* its path is the directory, a separator, the formatted name and ".go".
C4_FileInsideOutputDirectory ==
    \A e \in Emitted :
        e.idx \notin selectFailed =>
            e.path = InDirectory(outputFilePath, tableName(e.table) \o <<".go">>)

\* The mapping of section 4.1: the families, and the plain and nullable
\* target type of each.
Families ==
    [ integer  |-> { "integer", "bigint", "bigserial", "smallint", "smallserial",
                     "serial", "int", "tinyint", "mediumint" },
      float    |-> { "double precision", "numeric", "decimal", "real", "float",
                     "double" },
      text     |-> { "character varying", "character", "text", "char",
                     "varchar", "binary", "varbinary", "blob" },
      temporal |-> TemporalTypes,
      boolean  |-> { "boolean" } ]

PlainType ==
    [ integer |-> "int", float |-> "float64", text |-> "string",
      temporal |-> "time.Time", boolean |-> "bool" ]

NullableType ==
    [ integer |-> "sql.NullInt64", float |-> "sql.NullFloat64",
      text |-> "sql.NullString", temporal |-> "pq.NullTime",
      boolean |-> "sql.NullBool" ]

\* C5: for every type of the five families and both nullabilities the
\* mapper returns the documented target type, with isTime true for the
\* temporal family only; every other type maps to sql.NullString with isTime
\* false, whatever the nullability.
C5_DocumentedTypeMapping ==
    \A e \in Emitted :
        \A k \in 1..Len(e.table.Columns) :
            LET column == e.table.Columns[k]
                result == e.goTypes[k]
            IN  /\ \A family \in DOMAIN Families :
                      column.DataType \in Families[family] =>
                          /\ result.goType = IF column.IsNullable = "YES"
                                             THEN NullableType[family]
                                             ELSE PlainType[family]
                          /\ result.isTime = (family = "temporal")
                /\ (\A family \in DOMAIN Families :
                        column.DataType \notin Families[family]) =>
                          /\ result.goType = "sql.NullString"
                          /\ result.isTime = FALSE

\* A column of a type outside the families, not nullable, has been mapped.
C5_Witness ==
    \E e \in Emitted :
        \E k \in 1..Len(e.table.Columns) :
            /\ e.table.Columns[k].DataType = "uuid"
            /\ e.table.Columns[k].IsNullable = "NO"
            /\ e.goTypes[k].goType = "sql.NullString"

\* C6: a table whose only column is a nullable temporal one, generated
\* without annotation flags, imports github.com/lib/pq and neither
\* database/sql nor time.
C6_NullableTimeImportsOnlyPq ==
    \A e \in Emitted :
        ( /\ e.idx \notin selectFailed
          /\ e.formatErr = "nil"
          /\ Len(e.table.Columns) = 1
          /\ e.table.Columns[1].IsNullable = "YES"
          /\ e.table.Columns[1].DataType \in TemporalTypes
          /\ ~isMastermindStructable
          /\ ~isMastermindStructableOnly )
        => /\ "\"github.com/lib/pq\"" \in Range(HeadOf(e.written))
           /\ "\"database/sql\"" \notin Range(HeadOf(e.written))
           /\ "\"time\"" \notin Range(HeadOf(e.written))

\* C7: a table with no nullable and no temporal column, generated without
\* an active recorder embedding, has no import block, whatever the
\* annotation flags are.
C7_NoImportBlock ==
    \A e \in Emitted :
        ( /\ e.idx \notin selectFailed
          /\ e.formatErr = "nil"
          /\ NoNullableColumn(e.table)
          /\ NoTemporalColumn(e.table)
          /\ ~withRecorder )
        => "import (\n" \notin Range(e.written)

\* C8: after a run without error over N tables of distinct names the output
\* directory holds N distinct generated files, each with the struct of its
\* own table.
C8_OneFilePerTable ==
    (pc = "exit" /\ err = "nil" /\ db = "closed" /\ selectFailed = {}) =>
        /\ Cardinality(DOMAIN files) = Len(tables)
        /\ \A e \in Emitted : files[e.path] = e.written

\* The tag of a field line: the tokens between its two backquotes.
TagOf(line) ==
    LET open == IndexFrom(line, Backquote, 1)
    IN  SubSeq(line, open + 1, IndexFrom(line, Backquote, open + 1) - 1)

Markers ==
    <<",PRIMARY_KEY,SERIAL,AUTO_INCREMENT">>

IsSerialKey(column) ==
    \/ Contains(column.ColumnDefault, <<"nextval">>)
    \/ /\ Contains(column.ColumnKey, <<"PRI">>)
       /\ Contains(column.Extra, <<"auto_increment">>)

StblAnnotation(column) ==
    <<" stbl:\"">> \o column.ColumnName
    \o (IF IsSerialKey(column) THEN Markers ELSE <<>>) \o <<"\"">>

DbTag(column) ==
    <<"db:\"">> \o column.ColumnName \o <<"\"">>

\* C9: the stbl annotation of a column holds the marker tokens after the raw
\* column name exactly when its default contains nextval or its key contains
\* PRI and its extra contains auto_increment; the tag of the field is the
\* annotation alone with -sto, the db tag followed by the annotation with
\* -st alone, and the db tag alone without either flag.
C9_AnnotationAndTag ==
    \A e \in Emitted :
        \A k \in 1..Len(e.table.Columns) :
            LET column == e.table.Columns[k]
                tag == TagOf(e.lines[k])
            IN  /\ isMastermindStructableOnly => tag = StblAnnotation(column)
                /\ (isMastermindStructable /\ ~isMastermindStructableOnly) =>
                       tag = DbTag(column) \o StblAnnotation(column)
                /\ (~isMastermindStructable /\ ~isMastermindStructableOnly) =>
                       tag = DbTag(column)
                /\ (isMastermindStructable \/ isMastermindStructableOnly) =>
                       (Contains(tag, Markers) <=> IsSerialKey(column))

\* With -st alone, a column whose key contains PRI and whose extra contains
\* auto_increment, without a nextval default, has been emitted with the db
\* tag followed by the annotation with the markers.
C9_Witness ==
    /\ isMastermindStructable
    /\ ~isMastermindStructableOnly
    /\ \E e \in Emitted :
          \E k \in 1..Len(e.table.Columns) :
              /\ Contains(e.table.Columns[k].ColumnKey, <<"PRI">>)
              /\ Contains(e.table.Columns[k].Extra, <<"auto_increment">>)
              /\ ~Contains(e.table.Columns[k].ColumnDefault, <<"nextval">>)
              /\ Contains(e.lines[k], <<"db:\"">>)
              /\ Contains(e.lines[k], Markers)

\* C10: when the process ends, the connection that was opened and the
\* statement that was prepared have both been released.
C10_HandlesReleased ==
    pc = "exit" => (db # "open" /\ stmt # "prepared")

====
